---------------------------- MODULE Spec2Model ----------------------------
(***************************************************************************)
(* Tree edit mapping enumeration by backtracking, as implemented twice in  *)
(* the repository:                                                         *)
(*   "B6"  src/Baitoan6/backtracking.cpp                                   *)
(*   "P2"  src/Project2/Baitoan6/backtracking_tree_edit.cpp                *)
(* A tree is a record of parallel sequences indexed by the position of the *)
(* node in the tree's `nodes` vector (1-based here); 0 stands for nullptr. *)
(* Labels are opaque strings in the code, compared only for equality, and  *)
(* are numbers here.                                                       *)
(***************************************************************************)
EXTENDS Integers, Sequences, FiniteSets, TLC

\* Largest number of nodes of an input tree.
MaxNodes == 3
\* Number of distinct labels the T2 input may use (T1 uses 1..its size).
NumLabels == 3
\* Number of enumeration runs on the same pair of trees.
MaxRuns == 2
\* Largest number of nodes of T2 where only the candidate lists are built.
MaxSetupNodes == 5
\* Passes of the loop of preorder_tree_traversal that are followed.
MaxPasses == 6

\* The label "dummy" (B6) / "DUMMY" (P2) of the sentinel; no input label.
DummyLabel == 0
\* The depth B6 gives its sentinel.
DummyDepth == -1
\* INT_MAX as the start of the minimum search in extend_tree_edit.
INT_MAX == 2147483647

VARIABLES impl, T1, T2, stack, M, L, pc, runs,
          edit_distance, min_scan, min_distance, input, traversal

\* What main (B6) computes when it reports the solutions.
reportVars == <<edit_distance, min_scan, min_distance>>

\* The text still to be read and the position of the index assignment.
inputVars == <<input, traversal>>

vars == <<impl, T1, T2, stack, M, L, pc, runs, reportVars, inputVars>>

-----------------------------------------------------------------------------
(* Sequence helpers standing for the std:: algorithms the code calls.      *)

Range(s) == {s[i] : i \in 1..Len(s)}

RECURSIVE Reverse(_)
Reverse(s) == IF s = <<>> THEN <<>> ELSE Append(Reverse(Tail(s)), Head(s))

\* remove(begin, end, w) with the erase forgotten: the kept elements move to
\* the front and the vector keeps its length and its old tail.
EraseValue_without_erase(s, w) ==
    LET kept == SelectSeq(s, LAMBDA y : y # w)
    IN  kept \o SubSeq(s, Len(kept) + 1, Len(s))

\* candidates.erase(remove(begin, end, w), end)
EraseValue(s, w) == SelectSeq(s, LAMBDA y : y # w)

-----------------------------------------------------------------------------
(* B6: struct TreeNode, class Tree and the reading loop of main.           *)

\* Tree() : root(nullptr), dummy(nullptr), no nodes
Tree == [label |-> <<>>, parent |-> <<>>, children |-> <<>>, depth |-> <<>>,
         order |-> <<>>, root |-> 0, dummy |-> 0]

Nodes(T) == 1..Len(T.label)

\* TreeNode(l): depth 0, order 0, parent nullptr, no children; pushed at the
\* back of nodes.
NewNode(T, l) ==
    [T EXCEPT !.label = Append(@, l), !.parent = Append(@, 0),
              !.children = Append(@, <<>>), !.depth = Append(@, 0),
              !.order = Append(@, 0)]

findNode(T, l) ==
    IF \E x \in Nodes(T) : T.label[x] = l
    THEN CHOOSE x \in Nodes(T) :
            T.label[x] = l /\ \A y \in Nodes(T) : T.label[y] = l => x <= y
    ELSE 0

addNode(T, l) ==
    LET N == NewNode(T, l)
    IN  [N EXCEPT !.root = IF T.root = 0 THEN Len(N.label) ELSE T.root]

addEdge(T, parentLabel, childLabel) ==
    LET p == findNode(T, parentLabel)
        c == findNode(T, childLabel)
    IN  IF p # 0 /\ c # 0
        THEN [T EXCEPT !.children[p] = Append(@, c), !.parent[c] = p]
        ELSE T

\* One line "parent child" of the input, as main reads it.
ReadLine(T, line) ==
    LET A == IF findNode(T, line[1]) = 0 THEN addNode(T, line[1]) ELSE T
        B == IF findNode(A, line[2]) = 0 THEN addNode(A, line[2]) ELSE A
    IN  addEdge(B, line[1], line[2])

RECURSIVE ReadLines(_, _)
ReadLines(T, lines) ==
    IF lines = <<>> THEN T ELSE ReadLines(ReadLine(T, Head(lines)), Tail(lines))

\* The tree main holds after reading the edge list `lines`.
ReadEdges(lines) == ReadLines(Tree, lines)

RECURSIVE preorder_loop(_, _, _)
preorder_loop(T, stk, order) ==
    IF stk = <<>> THEN T
    ELSE LET current == stk[Len(stk)]
             rest == SubSeq(stk, 1, Len(stk) - 1)
         IN  preorder_loop([T EXCEPT !.order[current] = order],
                           rest \o Reverse(T.children[current]), order + 1)

preorder_tree_traversal(T) ==
    IF T.root = 0 THEN T ELSE preorder_loop(T, <<T.root>>, 0)

RECURSIVE depth_loop(_, _)
depth_loop(T, stk) ==
    IF stk = <<>> THEN T
    ELSE LET current == stk[Len(stk)][1]
             depth == stk[Len(stk)][2]
             rest == SubSeq(stk, 1, Len(stk) - 1)
             kids == T.children[current]
         IN  depth_loop([T EXCEPT !.depth[current] = depth],
                        rest \o [i \in 1..Len(kids) |-> <<kids[i], depth + 1>>])

preorder_tree_depth(T) ==
    IF T.root = 0 THEN T ELSE depth_loop(T, <<<<T.root, 0>>>>)

-----------------------------------------------------------------------------
(* P2: class Tree and readTree.  The input of readTree is the number of    *)
(* nodes followed by one "label parentIdx" line per node; the labels are   *)
(* never compared, so the input is modelled by its parentIdx column and    *)
(* node i is labelled i.                                                   *)

createNode(T, l) == NewNode(T, l)

setRoot(T, node) == [T EXCEPT !.root = node]

addChild(T, p, c) == [T EXCEPT !.children[p] = Append(@, c), !.parent[c] = p]

RECURSIVE assignPreorderAndDepthRecursive(_, _, _, _)
RECURSIVE assignChildren(_, _, _, _)
\* Returns the tree and the value of orderCounter (passed by reference).
assignPreorderAndDepthRecursive(T, node, depth, orderCounter) ==
    assignChildren([T EXCEPT !.depth[node] = depth, !.order[node] = orderCounter],
                   T.children[node], depth + 1, orderCounter + 1)

assignChildren(T, kids, depth, orderCounter) ==
    IF kids = <<>> THEN [tree |-> T, counter |-> orderCounter]
    ELSE LET r == assignPreorderAndDepthRecursive(T, Head(kids), depth, orderCounter)
         IN  assignChildren(r.tree, Tail(kids), depth, r.counter)

assignPreorderAndDepth(T) == assignPreorderAndDepthRecursive(T, T.root, 0, 0).tree

RECURSIVE collectPreorder(_, _, _)
RECURSIVE collectChildren(_, _, _)
collectPreorder(T, node, result) ==
    collectChildren(T, T.children[node], Append(result, node))

collectChildren(T, kids, result) ==
    IF kids = <<>> THEN result
    ELSE collectChildren(T, Tail(kids), collectPreorder(T, Head(kids), result))

getNodesInPreorder(T) == collectPreorder(T, T.root, <<>>)

RECURSIVE readNodes(_, _, _)
readNodes(T, parentIdx, i) ==
    IF i > Len(parentIdx) THEN T
    ELSE LET N == createNode(T, i)
             node == Len(N.label)
         IN  readNodes(IF parentIdx[i] = -1 THEN setRoot(N, node)
                       ELSE addChild(N, parentIdx[i] + 1, node),
                       parentIdx, i + 1)

readTree(parentIdx) == assignPreorderAndDepth(readNodes(Tree, parentIdx, 1))

-----------------------------------------------------------------------------
(* The inputs.  B6 reads an edge list; the lists taken here are all those  *)
(* that describe one rooted tree, with the edges in any order.  The code   *)
(* treats labels only up to equality, so the labels of T1 are numbered in  *)
(* the order in which they first appear and those of T2 are free.  P2      *)
(* reads parent indices; a node's parent must have been read before it.    *)

Labels == 1..NumLabels

LabelsOf(lines) == {lines[i][1] : i \in 1..Len(lines)} \cup {lines[i][2] : i \in 1..Len(lines)}

RECURSIVE ReachedFrom(_, _, _)
ReachedFrom(lines, R, fuel) ==
    IF fuel = 0 THEN R
    ELSE ReachedFrom(lines,
                     R \cup {lines[i][2] : i \in {j \in 1..Len(lines) : lines[j][1] \in R}},
                     fuel - 1)

IsRootedTree(lines) ==
    LET labs == LabelsOf(lines)
        heads == labs \ {lines[i][2] : i \in 1..Len(lines)}
    IN  /\ Cardinality(labs) = Len(lines) + 1
        /\ Cardinality(heads) = 1
        /\ \A i, j \in 1..Len(lines) : lines[i][2] = lines[j][2] => i = j
        /\ ReachedFrom(lines, heads, Len(lines)) = labs

Flat(lines) == [i \in 1..(2 * Len(lines)) |-> lines[(i + 1) \div 2][2 - (i % 2)]]

FirstSeenInOrder(lines) ==
    LET f == Flat(lines)
    IN  \A i \in 1..Len(f) : f[i] = 1 \/ \E j \in 1..(i - 1) : f[j] = f[i] - 1

EdgeLists == UNION {[1..k -> Labels \X Labels] : k \in 1..(MaxNodes - 1)}

TreeEdgeLists == {lines \in EdgeLists : IsRootedTree(lines)}

ParentLists ==
    UNION {{p \in [1..n -> -1..(n - 2)] :
               p[1] = -1 /\ \A i \in 2..n : p[i] >= 0 /\ p[i] < i - 1} : n \in 1..MaxNodes}

\* The tree of one node: Tree::addNode alone (an input line always names
\* two labels, so main reads trees of two nodes and more).
SingleNode(l) == addNode(Tree, l)

B6Inputs ==
    {<<A, B>> :
        A \in {ReadEdges(e) : e \in {e \in TreeEdgeLists : FirstSeenInOrder(e)}}
                \cup {SingleNode(1)},
        B \in {ReadEdges(e) : e \in TreeEdgeLists}
                \cup {SingleNode(l) : l \in Labels}}

P2Inputs == {<<readTree(p1), readTree(p2)>> : p1 \in ParentLists, p2 \in ParentLists}

-----------------------------------------------------------------------------
(* B6: candidate sets.  A candidate map (std::map keyed by T1 node) is a   *)
(* sequence indexed by the T1 node; each entry is the vector of T2 nodes.  *)

NodeSeq(T) == [i \in 1..Len(T.label) |-> i]

\* The sentinel is pushed twice at the head of every list.
set_up_candidate_nodes_dummy_twice(A, B) ==
    LET A1 == preorder_tree_depth(A)
        B1 == preorder_tree_depth(B)
        B2 == NewNode(B1, DummyLabel)
        d  == Len(B2.label)
        B3 == [B2 EXCEPT !.dummy = d, !.depth[d] = DummyDepth]
    IN  [T1 |-> A1, T2 |-> B3,
         C |-> [v \in Nodes(A1) |->
                  <<d, d>> \o SelectSeq(NodeSeq(B3),
                                        LAMBDA w : w # d /\ A1.depth[v] = B3.depth[w])]]

\* The lists start without the sentinel.
set_up_candidate_nodes_without_dummy(A, B) ==
    LET A1 == preorder_tree_depth(A)
        B1 == preorder_tree_depth(B)
        B2 == NewNode(B1, DummyLabel)
        d  == Len(B2.label)
        B3 == [B2 EXCEPT !.dummy = d, !.depth[d] = DummyDepth]
    IN  [T1 |-> A1, T2 |-> B3,
         C |-> [v \in Nodes(A1) |->
                  SelectSeq(NodeSeq(B3),
                            LAMBDA w : w # d /\ A1.depth[v] = B3.depth[w])]]

\* Returns the two trees as the call leaves them and the map C.
set_up_candidate_nodes(A, B) ==
    LET A1 == preorder_tree_depth(A)
        B1 == preorder_tree_depth(B)
        B2 == NewNode(B1, DummyLabel)
        d  == Len(B2.label)
        B3 == [B2 EXCEPT !.dummy = d, !.depth[d] = DummyDepth]
    IN  [T1 |-> A1, T2 |-> B3,
         C |-> [v \in Nodes(A1) |->
                  <<d>> \o SelectSeq(NodeSeq(B3),
                                     LAMBDA w : w # d /\ A1.depth[v] = B3.depth[w])]]

\* for pair in C: if x != v, erase w from its candidates
EraseFromOthers(C, v, w) ==
    [x \in DOMAIN C |-> IF x # v THEN EraseValue(C[x], w) ELSE C[x]]

\* w == T2.dummy: "remove dummy from all other candidates"
remove_dummy_from_others(C, v, w) == EraseFromOthers(C, v, w)

\* The children of a deleted node keep their candidates.
children_keep_dummy_skipped(A, B, C, v) == C

\* w == T2.dummy: the children of v keep only the dummy
children_keep_dummy(A, B, C, v) ==
    [x \in DOMAIN C |->
        IF x \in Range(A.children[v])
        THEN SelectSeq(C[x], LAMBDA y : ~(y # B.dummy))
        ELSE C[x]]

\* The image w stays a candidate of the other nodes.
remove_image_from_others_skipped(C, v, w) == C

\* w != T2.dummy: the bijective constraint
remove_image_from_others(C, v, w) == EraseFromOthers(C, v, w)

\* w != T2.dummy: the parent-child constraint
children_under_image(A, B, C, v, w) ==
    [x \in DOMAIN C |->
        IF x \in Range(A.children[v])
        THEN SelectSeq(C[x], LAMBDA y : ~(y # B.dummy /\ B.parent[y] # w))
        ELSE C[x]]

\* The sibling order constraint (the same statements in both branches):
\* T2.label(w) is compared with the label of v's parent in T1.
sibling_order_constraint(A, B, C, v, w) ==
    IF v # A.root /\ B.label[w] # A.label[A.parent[v]]
    THEN [x \in DOMAIN C |->
            IF x \in Range(A.children[A.parent[v]]) /\ A.order[v] < A.order[x]
            THEN SelectSeq(C[x], LAMBDA y : ~(y # B.dummy /\ B.order[w] > B.order[y]))
            ELSE C[x]]
    ELSE C

refine_candidate_nodes(A, B, C, v, w) ==
    IF w = B.dummy
    THEN sibling_order_constraint(A, B,
            children_keep_dummy(A, B, remove_dummy_from_others(C, v, w), v), v, w)
    ELSE sibling_order_constraint(A, B,
            children_under_image(A, B, remove_image_from_others(C, v, w), v, w), v, w)

\* isLast: no node of T1 has a greater order than v
IsLast(A, v) == ~ \E node \in Nodes(A) : A.order[node] > A.order[v]

\* next_v: the first node of T1.nodes with the least order greater than v's
NextV(A, v) ==
    LET later == {node \in Nodes(A) : A.order[node] > A.order[v] /\ A.order[node] < INT_MAX}
        least == {node \in later : \A o \in later : A.order[node] <= A.order[o]}
    IN  IF later = {} THEN 0
        ELSE CHOOSE node \in least : \A o \in least : node <= o

\* map<TreeNode*, TreeNode*> M: no node has an entry (0).
NoMapping(A) == [x \in Nodes(A) |-> 0]

RECURSIVE extend_tree_edit(_, _, _, _, _, _, _)
\* B6: extend_tree_edit as a function: the loop over C[v] from its k-th
\* candidate on, with the mapping m and the list l as they stand; the value
\* is the two as the loop leaves them.
extend_tree_edit(A, B, m, l, C, v, k) ==
    IF k > Len(C[v]) THEN [M |-> m, L |-> l]
    ELSE LET w == C[v][k]
             m1 == [m EXCEPT ![v] = w]
         IN  IF IsLast(A, v)
             THEN extend_tree_edit(A, B, m1, Append(l, m1), C, v, k + 1)
             ELSE LET N == refine_candidate_nodes(A, B, C, v, w)
                      next_v == NextV(A, v)
                      r == IF next_v # 0
                           THEN extend_tree_edit(A, B, m1, l, N, next_v, 1)
                           ELSE [M |-> m1, L |-> l]
                  IN  extend_tree_edit(A, B, r.M, r.L, C, v, k + 1)

\* B6: the list backtracking_tree_edit returns for the trees A and B.
backtracking_tree_edit_result(A, B) ==
    LET s == set_up_candidate_nodes(preorder_tree_traversal(A),
                                    preorder_tree_traversal(B))
    IN  extend_tree_edit(s.T1, s.T2, NoMapping(s.T1), <<>>, s.C, s.T1.root, 1).L

-----------------------------------------------------------------------------
(* P2: candidate sets.                                                     *)

\* Returns t2 as the call leaves it and the map.
setUpCandidateNodes(t1, t2) ==
    LET B == IF t2.dummy = 0
             THEN [createNode(t2, DummyLabel) EXCEPT !.dummy = Len(t2.label) + 1]
             ELSE t2
    IN  [T2 |-> B,
         C |-> [v \in Nodes(t1) |->
                  <<B.dummy>> \o SelectSeq(NodeSeq(B),
                                 LAMBDA w : w # B.dummy /\ t1.depth[v] = B.depth[w])]]

\* "Remove w from all other candidate lists if w is not dummy"
removeFromOthers(t2, candidates, v, w) ==
    IF w # t2.dummy
    THEN [vprime \in DOMAIN candidates |->
            IF vprime # v THEN EraseValue(candidates[vprime], w) ELSE candidates[vprime]]
    ELSE candidates

\* The parent mapping constraint is not enforced.
enforceParentMapping_skipped(t1, t2, refined, v, mapping) == refined

\* "Enforce parent mapping constraint"; mapping[x] = 0 stands for no entry
enforceParentMapping(t1, t2, refined, v, mapping) ==
    [vprime \in DOMAIN refined |->
        IF t1.parent[vprime] # 0 /\ mapping[t1.parent[vprime]] # 0 /\ vprime # v
        THEN LET parentMapped == mapping[t1.parent[vprime]]
             IN  SelectSeq(refined[vprime],
                     LAMBDA wprime : ~(t2.parent[wprime] # parentMapped
                                       /\ t2.parent[wprime] # 0))
        ELSE refined[vprime]]

refineCandidateNodes(t1, t2, candidates, v, w, mapping) ==
    enforceParentMapping(t1, t2, removeFromOthers(t2, candidates, v, w), v, mapping)

-----------------------------------------------------------------------------
(* The state.  impl says which program runs.  T1, T2 are the trees.  stack *)
(* holds one frame per active call of extend_tree_edit / extendTreeEdit:   *)
(* its node v, its candidate map C and the position k of the for loop in   *)
(* C[v].  M is the mapping (0: no entry for the node), L the collection of *)
(* solutions.  pc is "idle" before a run, "search" during it and "done"    *)
(* after it; runs counts the runs started.  main of B6 then prints the     *)
(* edit distance of every solution (edit_distance, pc "printed") and scans *)
(* the solutions once more for the least distance (min_scan holds what the *)
(* scan computed, min_distance the least; pc "reported").                  *)

Top == stack[Len(stack)]

Init ==
    /\ impl \in {"B6", "P2"}
    /\ \E in \in (IF impl = "B6" THEN B6Inputs ELSE P2Inputs) :
          T1 = in[1] /\ T2 = in[2]
    /\ stack = <<>>
    /\ M = <<>>
    /\ L = <<>>
    /\ pc = "idle"
    /\ runs = 0
    /\ edit_distance = <<>>
    /\ min_scan = <<>>
    /\ min_distance = INT_MAX
    /\ input = <<>>
    /\ traversal = <<>>

\* B6: backtracking_tree_edit up to its call of extend_tree_edit.
backtracking_tree_edit ==
    /\ impl = "B6"
    /\ pc \in {"idle", "done"}
    /\ runs < MaxRuns
    /\ LET s == set_up_candidate_nodes(preorder_tree_traversal(T1),
                                       preorder_tree_traversal(T2))
       IN  /\ T1' = s.T1
           /\ T2' = s.T2
           /\ M' = NoMapping(s.T1)
           /\ L' = <<>>
           /\ stack' = <<[v |-> s.T1.root, C |-> s.C, k |-> 1]>>
    /\ pc' = "search"
    /\ runs' = runs + 1
    /\ UNCHANGED impl
    /\ UNCHANGED <<reportVars, inputVars>>

\* B6: one pass of the for loop of extend_tree_edit with v the last node.
extend_tree_edit_last ==
    /\ impl = "B6"
    /\ pc = "search"
    /\ Top.k <= Len(Top.C[Top.v])
    /\ IsLast(T1, Top.v)
    /\ LET w == Top.C[Top.v][Top.k]
       IN  /\ M' = [M EXCEPT ![Top.v] = w]
           /\ L' = Append(L, M')
    /\ stack' = [stack EXCEPT ![Len(stack)].k = @ + 1]
    /\ UNCHANGED <<impl, T1, T2, pc, runs>>
    /\ UNCHANGED <<reportVars, inputVars>>

\* The pass refines C itself instead of the copy N.
extend_tree_edit_call_in_place ==
    /\ impl = "B6"
    /\ pc = "search"
    /\ Top.k <= Len(Top.C[Top.v])
    /\ ~IsLast(T1, Top.v)
    /\ LET w == Top.C[Top.v][Top.k]
           N == refine_candidate_nodes(T1, T2, Top.C, Top.v, w)
           next_v == NextV(T1, Top.v)
       IN  /\ M' = [M EXCEPT ![Top.v] = w]
           /\ next_v # 0
           /\ stack' = Append([stack EXCEPT ![Len(stack)].C = N],
                              [v |-> next_v, C |-> N, k |-> 1])
    /\ UNCHANGED <<impl, T1, T2, L, pc, runs>>
    /\ UNCHANGED <<reportVars, inputVars>>

\* B6: one pass of the for loop up to the recursive call.
extend_tree_edit_call ==
    /\ impl = "B6"
    /\ pc = "search"
    /\ Top.k <= Len(Top.C[Top.v])
    /\ ~IsLast(T1, Top.v)
    /\ LET w == Top.C[Top.v][Top.k]
           N == refine_candidate_nodes(T1, T2, Top.C, Top.v, w)
           next_v == NextV(T1, Top.v)
       IN  /\ M' = [M EXCEPT ![Top.v] = w]
           /\ next_v # 0
           /\ stack' = Append(stack, [v |-> next_v, C |-> N, k |-> 1])
    /\ UNCHANGED <<impl, T1, T2, L, pc, runs>>
    /\ UNCHANGED <<reportVars, inputVars>>

\* The caller's loop does not move on to its next candidate.
extend_tree_edit_return_same_candidate ==
    /\ impl = "B6"
    /\ pc = "search"
    /\ Top.k > Len(Top.C[Top.v])
    /\ IF Len(stack) = 1
       THEN /\ stack' = <<>>
            /\ pc' = "done"
       ELSE /\ stack' = SubSeq(stack, 1, Len(stack) - 1)
            /\ pc' = pc
    /\ UNCHANGED <<impl, T1, T2, M, L, runs>>
    /\ UNCHANGED <<reportVars, inputVars>>

\* B6: the for loop is over; the call returns to the pass that made it.
extend_tree_edit_return ==
    /\ impl = "B6"
    /\ pc = "search"
    /\ Top.k > Len(Top.C[Top.v])
    /\ IF Len(stack) = 1
       THEN /\ stack' = <<>>
            /\ pc' = "done"
       ELSE /\ stack' = [SubSeq(stack, 1, Len(stack) - 1) EXCEPT ![Len(stack) - 1].k = @ + 1]
            /\ pc' = pc
    /\ UNCHANGED <<impl, T1, T2, M, L, runs>>
    /\ UNCHANGED <<reportVars, inputVars>>

\* P2: main from setUpCandidateNodes up to its call of extendTreeEdit.
main_setup ==
    /\ impl = "P2"
    /\ pc \in {"idle", "done"}
    /\ runs < MaxRuns
    /\ LET s == setUpCandidateNodes(T1, T2)
           preorderT1 == getNodesInPreorder(T1)
       IN  /\ T2' = s.T2
           /\ stack' = <<[v |-> preorderT1[1], idx |-> 0, C |-> s.C, k |-> 1]>>
    /\ M' = NoMapping(T1)
    /\ L' = <<>>
    /\ pc' = "search"
    /\ runs' = runs + 1
    /\ UNCHANGED <<impl, T1>>
    /\ UNCHANGED <<reportVars, inputVars>>

\* P2: one pass of the for loop of extendTreeEdit at the last index.
extendTreeEdit_last ==
    /\ impl = "P2"
    /\ pc = "search"
    /\ Top.k <= Len(Top.C[Top.v])
    /\ Top.idx = Len(getNodesInPreorder(T1)) - 1
    /\ LET w == Top.C[Top.v][Top.k]
       IN  L' = Append(L, [M EXCEPT ![Top.v] = w])
    /\ M' = [M EXCEPT ![Top.v] = 0]
    /\ stack' = [stack EXCEPT ![Len(stack)].k = @ + 1]
    /\ UNCHANGED <<impl, T1, T2, pc, runs>>
    /\ UNCHANGED <<reportVars, inputVars>>

\* P2: one pass of the for loop up to the recursive call.
extendTreeEdit_call ==
    /\ impl = "P2"
    /\ pc = "search"
    /\ Top.k <= Len(Top.C[Top.v])
    /\ Top.idx # Len(getNodesInPreorder(T1)) - 1
    /\ LET w == Top.C[Top.v][Top.k]
           mapping == [M EXCEPT ![Top.v] = w]
           refined == refineCandidateNodes(T1, T2, Top.C, Top.v, w, mapping)
       IN  /\ M' = mapping
           /\ stack' = Append(stack, [v |-> getNodesInPreorder(T1)[Top.idx + 2],
                                      idx |-> Top.idx + 1, C |-> refined, k |-> 1])
    /\ UNCHANGED <<impl, T1, T2, L, pc, runs>>
    /\ UNCHANGED <<reportVars, inputVars>>

\* P2: the for loop is over; the caller erases its entry and goes on.
extendTreeEdit_return ==
    /\ impl = "P2"
    /\ pc = "search"
    /\ Top.k > Len(Top.C[Top.v])
    /\ IF Len(stack) = 1
       THEN /\ stack' = <<>>
            /\ pc' = "done"
            /\ M' = M
       ELSE /\ stack' = [SubSeq(stack, 1, Len(stack) - 1) EXCEPT ![Len(stack) - 1].k = @ + 1]
            /\ pc' = pc
            /\ M' = [M EXCEPT ![stack[Len(stack) - 1].v] = 0]
    /\ UNCHANGED <<impl, T1, T2, L, runs>>
    /\ UNCHANGED <<reportVars, inputVars>>

\* The scorer counts the stale result of the last call on top of its own.
calculateEditDistance_accumulating(mapping) ==
    LET deletions == Cardinality({x \in DOMAIN mapping : mapping[x] = T2.dummy})
        mapped_T2_nodes == {mapping[x] : x \in {y \in DOMAIN mapping :
                                mapping[y] # 0 /\ mapping[y] # T2.dummy}}
        insertions == Cardinality({node \in Nodes(T2) :
                                node # T2.dummy /\ node \notin mapped_T2_nodes})
    IN  deletions + insertions
        + (IF edit_distance = <<>> THEN 0 ELSE edit_distance[Len(edit_distance)])

\* The scorer leaves out the deletions.
calculateEditDistance_insertions_only(mapping) ==
    LET mapped_T2_nodes == {mapping[x] : x \in {y \in DOMAIN mapping :
                                mapping[y] # 0 /\ mapping[y] # T2.dummy}}
    IN  Cardinality({node \in Nodes(T2) :
                        node # T2.dummy /\ node \notin mapped_T2_nodes})

\* The scorer counts the sentinel among the nodes of T2 without an image.
calculateEditDistance_counting_dummy(mapping) ==
    LET deletions == Cardinality({x \in DOMAIN mapping : mapping[x] = T2.dummy})
        mapped_T2_nodes == {mapping[x] : x \in {y \in DOMAIN mapping :
                                mapping[y] # 0 /\ mapping[y] # T2.dummy}}
        insertions == Cardinality({node \in Nodes(T2) : node \notin mapped_T2_nodes})
    IN  deletions + insertions

\* B6: calculateEditDistance reads the global T2; an entry 0 of the mapping
\* is a node of T1 without an entry in the std::map.
calculateEditDistance(mapping) ==
    LET deletions == Cardinality({x \in DOMAIN mapping : mapping[x] = T2.dummy})
        mapped_T2_nodes == {mapping[x] : x \in {y \in DOMAIN mapping :
                                mapping[y] # 0 /\ mapping[y] # T2.dummy}}
        insertions == Cardinality({node \in Nodes(T2) :
                                node # T2.dummy /\ node \notin mapped_T2_nodes})
    IN  deletions + insertions

RECURSIVE Least(_, _)
\* if (distance < min_distance) min_distance = distance, over the sequence
Least(ds, min) ==
    IF ds = <<>> THEN min
    ELSE Least(Tail(ds), IF Head(ds) < min THEN Head(ds) ELSE min)

\* B6: main after its call of backtracking_tree_edit, the only one it
\* makes: it prints every solution with its edit distance, or that there is
\* none.
main_print_solutions ==
    /\ impl = "B6"
    /\ pc = "done"
    /\ runs = 1
    /\ IF L = <<>>
       THEN /\ pc' = "reported"
            /\ edit_distance' = edit_distance
       ELSE /\ pc' = "printed"
            /\ edit_distance' = [i \in 1..Len(L) |-> calculateEditDistance(L[i])]
    /\ UNCHANGED <<impl, T1, T2, stack, M, L, runs, min_scan, min_distance, inputVars>>

\* B6: main's second loop over the solutions: "Find minimum edit distance".
main_min_distance ==
    /\ impl = "B6"
    /\ pc = "printed"
    /\ min_scan' = [i \in 1..Len(L) |-> calculateEditDistance(L[i])]
    /\ min_distance' = Least(min_scan', INT_MAX)
    /\ pc' = "reported"
    /\ UNCHANGED <<impl, T1, T2, stack, M, L, runs, edit_distance, inputVars>>

Next ==
    \/ backtracking_tree_edit
    \/ extend_tree_edit_last
    \/ extend_tree_edit_call
    \/ extend_tree_edit_return
    \/ main_print_solutions
    \/ main_min_distance
    \/ main_setup
    \/ extendTreeEdit_last
    \/ extendTreeEdit_call
    \/ extendTreeEdit_return

Spec == Init /\ [][Next]_vars

\* The steps of a search.
SearchStep ==
    \/ extend_tree_edit_last
    \/ extend_tree_edit_call
    \/ extend_tree_edit_return
    \/ extendTreeEdit_last
    \/ extendTreeEdit_call
    \/ extendTreeEdit_return

\* The programs are sequential and run on: a search that can take a step
\* takes it.
FairSpec == Spec /\ WF_vars(SearchStep)

-----------------------------------------------------------------------------
(* The candidate set builders alone, on larger trees T2.  The trees are    *)
(* given root first: node i + 1 of the input hangs under an earlier node,  *)
(* which for B6 is the edge list "parent child" in the order of the        *)
(* children's first appearance.                                            *)

SetupParentLists ==
    UNION {{p \in [1..n -> -1..(n - 2)] :
               p[1] = -1 /\ \A i \in 2..n : p[i] >= 0 /\ p[i] < i - 1} :
           n \in 1..MaxSetupNodes}

\* The edge list of a parent list: one line per node but the first.
EdgesOf(p) == [i \in 1..(Len(p) - 1) |-> <<p[i + 1] + 1, i + 1>>]

ReadRootFirst(p) == IF Len(p) = 1 THEN SingleNode(1) ELSE ReadEdges(EdgesOf(p))

SetupInit ==
    /\ impl \in {"B6", "P2"}
    /\ \E p1 \in ParentLists, p2 \in SetupParentLists :
          /\ T1 = IF impl = "B6" THEN ReadRootFirst(p1) ELSE readTree(p1)
          /\ T2 = IF impl = "B6" THEN ReadRootFirst(p2) ELSE readTree(p2)
    /\ stack = <<>>
    /\ M = <<>>
    /\ L = <<>>
    /\ pc = "idle"
    /\ runs = 0
    /\ edit_distance = <<>>
    /\ min_scan = <<>>
    /\ min_distance = INT_MAX
    /\ input = <<>>
    /\ traversal = <<>>

SetupNext ==
    \/ backtracking_tree_edit
    \/ main_setup

SetupSpec == SetupInit /\ [][SetupNext]_vars

-----------------------------------------------------------------------------
(* The programs from the first line of input.txt, on every input of the    *)
(* format, whether it describes a tree or not.  input holds the text of    *)
(* the two trees (T1, T2) and how much of it has been read.  For B6 the    *)
(* loop of preorder_tree_traversal is followed pass by pass: traversal     *)
(* holds the tree it works on, its stack and its counter.  Reading off     *)
(* the end of nodePtrs and calling through a null root are undefined in    *)
(* P2: the program stops (pc "crashed") or the stray pointer happens to be *)
(* that of a node read so far or of nothing that matters.                  *)

AllParentLists == UNION {[1..n -> -1..(n - 1)] : n \in 1..MaxNodes}

InputInit ==
    /\ impl \in {"B6", "P2"}
    /\ input \in IF impl = "B6"
                 THEN {[T1 |-> e1, T2 |-> e2, read |-> 0] : e1 \in EdgeLists, e2 \in EdgeLists}
                 ELSE {[T1 |-> p1, T2 |-> p2, read |-> 0] :
                          p1 \in AllParentLists, p2 \in AllParentLists}
    /\ T1 = Tree
    /\ T2 = Tree
    /\ stack = <<>>
    /\ M = <<>>
    /\ L = <<>>
    /\ pc = IF impl = "B6" THEN "read" ELSE "readTree1"
    /\ runs = 0
    /\ edit_distance = <<>>
    /\ min_scan = <<>>
    /\ min_distance = INT_MAX
    /\ traversal = <<>>

\* B6: one pass of a reading loop of main, the loop of Tree 1 first.
main_read_line ==
    /\ impl = "B6"
    /\ pc = "read"
    /\ input.read < Len(input.T1) + Len(input.T2)
    /\ IF input.read < Len(input.T1)
       THEN /\ T1' = ReadLine(T1, input.T1[input.read + 1])
            /\ T2' = T2
       ELSE /\ T2' = ReadLine(T2, input.T2[input.read - Len(input.T1) + 1])
            /\ T1' = T1
    /\ input' = [input EXCEPT !.read = @ + 1]
    /\ UNCHANGED <<impl, stack, M, L, pc, runs, reportVars, traversal>>

\* preorder_tree_traversal up to its loop.
StartTraversal(n, T) ==
    [tree |-> n, stack |-> IF T.root = 0 THEN <<>> ELSE <<T.root>>, order |-> 0]

\* B6: main calls backtracking_tree_edit, which calls
\* preorder_tree_traversal(T1).
backtracking_tree_edit_enter ==
    /\ impl = "B6"
    /\ pc = "read"
    /\ input.read = Len(input.T1) + Len(input.T2)
    /\ pc' = "traverse"
    /\ traversal' = StartTraversal(1, T1)
    /\ UNCHANGED <<impl, T1, T2, stack, M, L, runs, reportVars, input>>

\* B6: one pass of the while loop of preorder_tree_traversal.
preorder_tree_traversal_pass ==
    /\ impl = "B6"
    /\ pc = "traverse"
    /\ traversal.stack # <<>>
    /\ traversal.order < MaxPasses
    /\ LET current == traversal.stack[Len(traversal.stack)]
           rest == SubSeq(traversal.stack, 1, Len(traversal.stack) - 1)
           T == IF traversal.tree = 1 THEN T1 ELSE T2
       IN  /\ traversal' = [traversal EXCEPT !.stack = rest \o Reverse(T.children[current]),
                                             !.order = @ + 1]
           /\ IF traversal.tree = 1
              THEN T1' = [T1 EXCEPT !.order[current] = traversal.order] /\ T2' = T2
              ELSE T2' = [T2 EXCEPT !.order[current] = traversal.order] /\ T1' = T1
    /\ UNCHANGED <<impl, stack, M, L, pc, runs, reportVars, input>>

\* B6: the loop is over.  After T1 comes preorder_tree_traversal(T2); after
\* T2, set_up_candidate_nodes and the first call of extend_tree_edit.
preorder_tree_traversal_return ==
    /\ impl = "B6"
    /\ pc = "traverse"
    /\ traversal.stack = <<>>
    /\ IF traversal.tree = 1
       THEN /\ traversal' = StartTraversal(2, T2)
            /\ UNCHANGED <<T1, T2, stack, M, L, pc, runs>>
       ELSE LET s == set_up_candidate_nodes(T1, T2)
            IN  /\ T1' = s.T1
                /\ T2' = s.T2
                /\ M' = NoMapping(s.T1)
                /\ L' = <<>>
                /\ stack' = <<[v |-> s.T1.root, C |-> s.C, k |-> 1]>>
                /\ pc' = "search"
                /\ runs' = runs + 1
                /\ traversal' = traversal
    /\ UNCHANGED <<impl, reportVars, input>>

\* The parentIdx column readTree is reading.
ParentIdx == IF pc = "readTree1" THEN input.T1 ELSE input.T2

\* readTree goes on to its next pass with the tree N.
readTree_next(N) ==
    /\ IF pc = "readTree1"
       THEN T1' = N /\ T2' = T2
       ELSE T2' = N /\ T1' = T1
    /\ input' = [input EXCEPT !.read = @ + 1]
    /\ pc' = pc

\* P2: one pass of the for loop of readTree.
readTree_node ==
    /\ impl = "P2"
    /\ pc \in {"readTree1", "readTree2"}
    /\ input.read < Len(ParentIdx)
    /\ LET T == IF pc = "readTree1" THEN T1 ELSE T2
           parentIdx == ParentIdx[input.read + 1]
           N == createNode(T, input.read + 1)
           node == Len(N.label)
       IN  IF parentIdx = -1
           THEN readTree_next(setRoot(N, node))
           ELSE IF parentIdx + 1 <= node
           THEN readTree_next(addChild(N, parentIdx + 1, node))
           ELSE \/ pc' = "crashed" /\ UNCHANGED <<T1, T2, input>>
                \/ readTree_next(N)
                \/ \E q \in Nodes(N) : readTree_next(addChild(N, q, node))
    /\ UNCHANGED <<impl, stack, M, L, runs, reportVars, traversal>>

\* P2: the loop of readTree is over: assignPreorderAndDepth and return.
readTree_return ==
    /\ impl = "P2"
    /\ pc \in {"readTree1", "readTree2"}
    /\ input.read = Len(ParentIdx)
    /\ LET T == IF pc = "readTree1" THEN T1 ELSE T2
       IN  IF T.root = 0
           THEN pc' = "crashed" /\ UNCHANGED <<T1, T2, input>>
           ELSE /\ IF pc = "readTree1"
                   THEN T1' = assignPreorderAndDepth(T) /\ T2' = T2
                   ELSE T2' = assignPreorderAndDepth(T) /\ T1' = T1
                /\ input' = [input EXCEPT !.read = 0]
                /\ pc' = IF pc = "readTree1" THEN "readTree2" ELSE "idle"
    /\ UNCHANGED <<impl, stack, M, L, runs, reportVars, traversal>>

InputNext ==
    \/ main_read_line
    \/ backtracking_tree_edit_enter
    \/ preorder_tree_traversal_pass
    \/ preorder_tree_traversal_return
    \/ readTree_node
    \/ readTree_return
    \/ main_setup

InputSpec == InputInit /\ [][InputNext]_vars

-----------------------------------------------------------------------------
(* Notions the properties are stated with.  They are read off the tree     *)
(* itself (its parent links and child lists), not off the depth and order  *)
(* fields the programs compute.                                            *)

\* The nodes of T that came from the input (the sentinel is no tree node).
Ordinary(T) == {x \in Nodes(T) : T.label[x] # DummyLabel}

\* The node without a parent.
TrueRoot(T) == CHOOSE x \in Ordinary(T) : T.parent[x] = 0

RECURSIVE TrueDepth(_, _)
TrueDepth(T, x) == IF T.parent[x] = 0 THEN 0 ELSE 1 + TrueDepth(T, T.parent[x])

RECURSIVE IsAncestor(_, _, _)
\* a is a proper ancestor of x
IsAncestor(T, a, x) ==
    T.parent[x] # 0 /\ (T.parent[x] = a \/ IsAncestor(T, a, T.parent[x]))

Descendants(T, v) == {x \in Ordinary(T) : IsAncestor(T, v, x)}

RECURSIVE Walk(_, _)
RECURSIVE WalkAll(_, _)
\* Root first, then the children from left to right.
Walk(T, x) == <<x>> \o WalkAll(T, T.children[x])

WalkAll(T, kids) == IF kids = <<>> THEN <<>> ELSE Walk(T, Head(kids)) \o WalkAll(T, Tail(kids))

\* The 0-based preorder index of x.
TruePreorder(T, x) ==
    LET walk == Walk(T, TrueRoot(T))
    IN  (CHOOSE i \in 1..Len(walk) : walk[i] = x) - 1

RECURSIVE IsSubseq(_, _)
\* s arises from t by deleting elements
IsSubseq(s, t) ==
    IF s = <<>> THEN TRUE
    ELSE IF t = <<>> THEN FALSE
    ELSE IF Head(s) = Head(t) THEN IsSubseq(Tail(s), Tail(t))
    ELSE IsSubseq(s, Tail(t))

Solutions == Range(L)

\* The images a solution gives: node x has one, and it is an ordinary node.
Mapped(m, x) == m[x] # 0
ToOrdinary(m, x) == m[x] # 0 /\ m[x] # T2.dummy

Siblings(T, a, b) == a # b /\ T.parent[a] # 0 /\ T.parent[a] = T.parent[b]

\* The first node of T.nodes is the node without a parent, as it is when
\* the input lists the root's edges first.
RootFirst(T) == T.root = TrueRoot(T)

-----------------------------------------------------------------------------
(* The constraint system of C1.                                            *)

ValidMap(m) ==
    /\ \A v \in Nodes(T1) :
          m[v] # T2.dummy => TrueDepth(T1, v) = TrueDepth(T2, m[v])
    /\ \A v1, v2 \in Nodes(T1) :
          v1 # v2 /\ m[v1] # T2.dummy /\ m[v2] # T2.dummy => m[v1] # m[v2]
    /\ \A v \in Nodes(T1) :
          T1.parent[v] # 0 /\ m[v] # T2.dummy => T2.parent[m[v]] = m[T1.parent[v]]
    /\ \A v \in Nodes(T1) :
          m[v] = T2.dummy => \A x \in Descendants(T1, v) : m[x] = T2.dummy
    /\ \A v1, v2 \in Nodes(T1) :
          /\ Siblings(T1, v1, v2)
          /\ TruePreorder(T1, v1) < TruePreorder(T1, v2)
          /\ m[v1] # T2.dummy /\ m[v2] # T2.dummy
          => TruePreorder(T2, m[v1]) <= TruePreorder(T2, m[v2])

ValidMaps == {m \in [Nodes(T1) -> Ordinary(T2) \cup {T2.dummy}] : ValidMap(m)}

\* C1: when a run of backtracking_tree_edit (B6) is over, the collected
\* solutions are exactly the total maps from the nodes of T1 to the nodes of
\* T2 plus DELETE that satisfy the constraint system: none is missing and no
\* other map is present.
ExhaustiveEnumeration ==
    (impl = "B6" /\ pc = "done") => Solutions = ValidMaps

\* C2: every mapping in the solution collection has an image for every node
\* of T1.
Totality ==
    \A m \in Solutions : \A v \in Nodes(T1) : Mapped(m, v)

\* C3: in every solution two distinct nodes of T1 whose images are not
\* DELETE have different images.
Bijectivity ==
    \A m \in Solutions : \A v1, v2 \in Nodes(T1) :
        v1 # v2 /\ ToOrdinary(m, v1) /\ ToOrdinary(m, v2) => m[v1] # m[v2]

\* A solution that maps two nodes of T1 to ordinary nodes of T2.
BijectivityWitness ==
    \E m \in Solutions : \E v1, v2 \in Nodes(T1) :
        v1 # v2 /\ ToOrdinary(m, v1) /\ ToOrdinary(m, v2)

\* The nodes the call at the top of the stack and the calls below it have
\* still to assign: its own node and those later in preorder.
Unassigned(f) == {x \in Nodes(T1) : x = f.v \/ T1.order[x] > T1.order[f.v]}

\* C4: at every point of the search the candidate list of every node not
\* yet assigned contains DELETE.
DeleteAlwaysCandidate ==
    pc = "search" =>
        \A x \in Unassigned(Top) : T2.dummy \in Range(Top.C[x])

\* C5: if a solution maps a node v of T1 to DELETE, it maps every
\* descendant of v (children, grandchildren, ...) to DELETE.
DeletionPropagation ==
    \A m \in Solutions : \A v \in Nodes(T1) :
        m[v] = T2.dummy => \A x \in Descendants(T1, v) : m[x] = T2.dummy

\* A solution that maps to DELETE a node that has descendants.
DeletionPropagationWitness ==
    \E m \in Solutions : \E v \in Nodes(T1) :
        /\ m[v] = T2.dummy
        /\ Descendants(T1, v) # {}
        /\ \A x \in Descendants(T1, v) : m[x] = T2.dummy

\* C6: for every pair (v, w) of a solution with w not DELETE, the depth of
\* v in T1 equals the depth of w in T2.
DepthCompatibility ==
    \A m \in Solutions : \A v \in Nodes(T1) :
        ToOrdinary(m, v) => TrueDepth(T1, v) = TrueDepth(T2, m[v])

\* The image of v is a child of the image of v's parent.
NaturalContinuation(m, v) == T2.parent[m[v]] = m[T1.parent[v]]

\* C7: in every solution of B6, two siblings v1 before v2 of T1 whose images
\* are not DELETE and are both natural continuations have their images in
\* the same order in the preorder of T2.
SiblingOrderPreservation ==
    impl = "B6" =>
        \A m \in Solutions : \A v1, v2 \in Nodes(T1) :
            /\ Siblings(T1, v1, v2)
            /\ TruePreorder(T1, v1) < TruePreorder(T1, v2)
            /\ ToOrdinary(m, v1) /\ ToOrdinary(m, v2)
            /\ NaturalContinuation(m, v1) /\ NaturalContinuation(m, v2)
            => TruePreorder(T2, m[v1]) <= TruePreorder(T2, m[v2])

\* C8: once candidate sets have been built, however often, T2 holds exactly
\* one DELETE sentinel: the one T2.dummy names.
OneDeleteSentinel ==
    T2.dummy # 0 => {x \in Nodes(T2) : T2.label[x] = DummyLabel} = {T2.dummy}

\* C9: the candidate list a call of the search passes down for a node of T1
\* arises from the list the call was given by deleting candidates: none is
\* added, none changes place.
CandidateSetsShrink ==
    \A i \in 1..(Len(stack) - 1) : \A x \in Nodes(T1) :
        IsSubseq(stack[i + 1].C[x], stack[i].C[x])

\* A refinement step that took a candidate away from some node.
CandidateSetsShrinkWitness ==
    \E i \in 1..(Len(stack) - 1) : \E x \in Nodes(T1) :
        /\ IsSubseq(stack[i + 1].C[x], stack[i].C[x])
        /\ Len(stack[i + 1].C[x]) < Len(stack[i].C[x])

\* C10: no step changes the candidate map (or the node) of a call that is
\* on the stack before and after it: what the branch of one candidate
\* prunes is not seen when the next candidate is tried.
SnapshotIndependence ==
    [][\A i \in 1..Len(stack) :
          i <= Len(stack') => stack'[i].C = stack[i].C /\ stack'[i].v = stack[i].v]_vars

\* The branch of the previous candidate of B6's current node has returned,
\* its refinement had pruned the map it was given, and the next candidate is
\* about to be tried.
SnapshotIndependenceWitness ==
    /\ impl = "B6"
    /\ pc = "search"
    /\ Top.k >= 2
    /\ Top.k <= Len(Top.C[Top.v])
    /\ ~IsLast(T1, Top.v)
    /\ refine_candidate_nodes(T1, T2, Top.C, Top.v, Top.C[Top.v][Top.k - 1]) # Top.C

\* The nodes of S in the order of the preorder walk of T.
InPreorder(T, S) == SelectSeq(Walk(T, TrueRoot(T)), LAMBDA w : w \in S)

\* The candidate map the builder returned: that of the first call of the
\* search.
InitialCandidateMap == stack[1].C

\* C11: the list the candidate set builder makes for a node v of T1 is
\* DELETE followed by exactly the ordinary nodes of T2 at the depth of v,
\* in ascending preorder index of T2.
InitialCandidates ==
    (pc = "search") =>
        \A v \in Nodes(T1) :
            InitialCandidateMap[v] =
                <<T2.dummy>> \o InPreorder(T2, {w \in Ordinary(T2) :
                                    TrueDepth(T2, w) = TrueDepth(T1, v)})

\* C18: a search that has started comes to its end, and at no time are
\* there more calls of extend_tree_edit / extendTreeEdit on the stack than
\* T1 has nodes.
Termination ==
    /\ [](Len(stack) <= Cardinality(Nodes(T1)))
    /\ (pc = "search") ~> (pc = "done")

\* A search over a T1 of the largest size has ended with solutions, and
\* none of its calls is left.
TerminationWitness ==
    /\ pc = "done"
    /\ stack = <<>>
    /\ Len(L) > 0
    /\ Cardinality(Nodes(T1)) = MaxNodes

\* The tree as it was read: without the sentinels the builder appended.
AsRead(T) ==
    LET n == Cardinality(Ordinary(T))
    IN  [label |-> SubSeq(T.label, 1, n), parent |-> SubSeq(T.parent, 1, n),
         children |-> SubSeq(T.children, 1, n), depth |-> SubSeq(T.depth, 1, n),
         order |-> SubSeq(T.order, 1, n), root |-> T.root, dummy |-> 0]

\* The same tree with its labels renamed by f.
Relabelled(T, f) == [T EXCEPT !.label = [i \in 1..Len(T.label) |-> f[T.label[i]]]]

\* C19: the solutions do not depend on the labels: when the first run of B6
\* is over, its solutions are, as a set of node-to-node maps, those the
\* enumeration yields on the same T1 and on T2 with its labels renamed in
\* any way (same shape, same child order).
LabelIndependence ==
    (impl = "B6" /\ pc = "done" /\ runs = 1) =>
        \A f \in Permutations(Labels) :
            Range(backtracking_tree_edit_result(AsRead(T1), Relabelled(AsRead(T2), f)))
                = Solutions

-----------------------------------------------------------------------------
(* Malformed input.  The code has no state for a rejected input; the name  *)
(* below is the one the error would have.                                  *)

Reading == pc \in {"read", "readTree1", "readTree2"}

Rejected == pc = "MalformedTreeInput"

\* Two different labels, each declared a child of the other.
ChildrenOfEachOther(lines) ==
    \E i, j \in 1..Len(lines) :
        /\ lines[i][1] # lines[i][2]
        /\ lines[j] = <<lines[i][2], lines[i][1]>>

\* The text describes one rooted tree.
WellFormed(text) ==
    IF impl = "B6"
    THEN IsRootedTree(text)
    ELSE text[1] = -1 /\ \A i \in 2..Len(text) : text[i] >= 0 /\ text[i] < i - 1

\* The tree whose indices are being assigned.
Traversed == IF traversal.tree = 1 THEN T1 ELSE T2

\* C16: an edge list of B6 in which two labels are children of each other
\* (the other tree being well formed) ends in the MalformedTreeInput state
\* before any search step: reading and index assignment come to an end, the
\* assignment giving out no more indices than the tree has nodes, and no
\* solution is produced.
CycleRejected ==
    (impl = "B6" /\ (\/ ChildrenOfEachOther(input.T1) /\ WellFormed(input.T2)
                     \/ WellFormed(input.T1) /\ ChildrenOfEachOther(input.T2))) =>
        /\ \/ Reading
           \/ Rejected
           \/ pc = "traverse" /\ traversal.order <= Cardinality(Nodes(Traversed))
        /\ L = <<>>

\* Labels without an incoming edge.
Heads(lines) == LabelsOf(lines) \ {lines[i][2] : i \in 1..Len(lines)}

\* Two or more roots, or (P2) a parent index that has not been read yet.
NotOneRootedTree(text) ==
    IF impl = "B6"
    THEN Cardinality(Heads(text)) >= 2
    ELSE \/ Cardinality({i \in 1..Len(text) : text[i] = -1}) >= 2
         \/ \E i \in 1..Len(text) : text[i] >= i

\* C17: on input of which one tree has two or more roots or refers to an
\* undeclared parent (the other being well formed), the enumeration is
\* never started: the input is rejected, no tree is built from it.
MalformedRejected ==
    (\/ NotOneRootedTree(input.T1) /\ WellFormed(input.T2)
     \/ WellFormed(input.T1) /\ NotOneRootedTree(input.T2)) =>
        pc # "search"

-----------------------------------------------------------------------------
(* Scoring and the scenarios.                                              *)

\* The nodes of T1 a solution deletes, the nodes of T2 it leaves without a
\* preimage, and a pair whose two labels differ.
Deleted(m) == {v \in Nodes(T1) : m[v] = T2.dummy}
Inserted(m) == {w \in Ordinary(T2) : \A v \in Nodes(T1) : m[v] # w}
Relabels(m) == \E v \in Nodes(T1) : ToOrdinary(m, v) /\ T1.label[v] # T2.label[m[v]]

\* main has printed the distances of the solutions.
Scored == pc \in {"printed", "reported"} /\ L # <<>>

\* C12: the edit distance calculateEditDistance returns for a solution is
\* the number of nodes of T1 mapped to DELETE plus the number of ordinary
\* nodes of T2 that are no node's image; a pair of two ordinary nodes adds
\* nothing, whatever their labels.
Scoring ==
    Scored =>
        \A i \in 1..Len(L) :
            edit_distance[i] = Cardinality(Deleted(L[i])) + Cardinality(Inserted(L[i]))

\* A scored solution with a deletion, an insertion and a pair of nodes with
\* different labels.
ScoringWitness ==
    /\ Scored
    /\ \E i \in 1..Len(L) :
          /\ Deleted(L[i]) # {} /\ Inserted(L[i]) # {} /\ Relabels(L[i])
          /\ edit_distance[i] = Cardinality(Deleted(L[i])) + Cardinality(Inserted(L[i]))

SingleNodeTree(T) == Cardinality(Ordinary(T)) = 1

Finished == pc \in {"done", "printed", "reported"}

\* The distance main printed for the solution m.
DistanceOf(m) == edit_distance[CHOOSE i \in 1..Len(L) : L[i] = m]

ScenarioATrees == SingleNodeTree(T1) /\ SingleNodeTree(T2)

\* C13 as stated: with T1 a single root and T2 a single root, the finished
\* enumeration holds exactly one solution, root -> root, and its edit
\* distance is 0.
ScenarioA ==
    (ScenarioATrees /\ Finished) =>
        /\ Len(L) = 1
        /\ L[1][T1.root] = T2.root
        /\ Scored => edit_distance = <<0>>

\* C13 amended: with T1 a single root and T2 a single root, the finished
\* enumeration holds exactly two solutions, root -> DELETE and root -> root;
\* the edit distance of root -> root is 0, that of root -> DELETE is 2, and
\* the minimum reported is 0.
ScenarioATwoSolutions ==
    (ScenarioATrees /\ Finished) =>
        /\ Len(L) = 2
        /\ Solutions = {[x \in Nodes(T1) |-> T2.root], [x \in Nodes(T1) |-> T2.dummy]}
        /\ Scored => \A m \in Solutions :
                        DistanceOf(m) = IF m[T1.root] = T2.dummy THEN 2 ELSE 0
        /\ (pc = "reported") => min_distance = 0

\* The report of B6 on two single roots is complete.
ScenarioAWitness ==
    ScenarioATrees /\ impl = "B6" /\ pc = "reported" /\ Len(L) = 2 /\ min_distance = 0

ScenarioBTrees ==
    /\ SingleNodeTree(T1)
    /\ Cardinality(Ordinary(T2)) = 2
    /\ \E y \in Ordinary(T2) : T2.parent[y] = T2.root

\* C14 as stated: with T1 a single root a and T2 the root x with one child
\* y, the finished enumeration holds exactly the two solutions a -> x and
\* a -> DELETE, with edit distances 1 and 2.
ScenarioB ==
    (ScenarioBTrees /\ Finished) =>
        /\ Len(L) = 2
        /\ Solutions = {[v \in Nodes(T1) |-> T2.root], [v \in Nodes(T1) |-> T2.dummy]}
        /\ Scored => \A m \in Solutions :
                        DistanceOf(m) = IF m[T1.root] = T2.dummy THEN 2 ELSE 1

\* C14 amended: with T1 a single root a and T2 the root x with one child y,
\* the finished enumeration holds exactly the two solutions a -> x and
\* a -> DELETE; the edit distance of a -> x is 1 (y is inserted) and that
\* of a -> DELETE is 3 (a is deleted, x and y are inserted).
ScenarioBThreeEdits ==
    (ScenarioBTrees /\ Finished) =>
        /\ Len(L) = 2
        /\ Solutions = {[v \in Nodes(T1) |-> T2.root], [v \in Nodes(T1) |-> T2.dummy]}
        /\ Scored => \A m \in Solutions :
                        DistanceOf(m) = IF m[T1.root] = T2.dummy THEN 3 ELSE 1

\* B6 has scored the two solutions of scenario B.
ScenarioBWitness ==
    /\ ScenarioBTrees /\ impl = "B6" /\ pc = "printed"
    /\ \E m \in Solutions : m[T1.root] = T2.dummy /\ DistanceOf(m) = 3

\* The node of T2 that carries the label of the node x of T1.
SameLabel(x) == findNode(T2, T1.label[x])

\* T2 is T1: label by label the same parent and the same children in the
\* same order.
IdenticalTrees ==
    /\ Cardinality(Ordinary(T1)) = Cardinality(Ordinary(T2))
    /\ \A x \in Ordinary(T1) :
          /\ SameLabel(x) # 0
          /\ T2.children[SameLabel(x)] =
                [i \in 1..Len(T1.children[x]) |-> SameLabel(T1.children[x][i])]
          /\ T1.parent[x] = 0 <=> T2.parent[SameLabel(x)] = 0

IdentityMapping == [x \in Nodes(T1) |-> SameLabel(x)]

\* C15: when T1 and T2 are identical trees, the identity mapping is among
\* the solutions of the finished enumeration, its edit distance is 0, and 0
\* is the minimum edit distance reported.
ScenarioC ==
    (IdenticalTrees /\ Finished) =>
        /\ IdentityMapping \in Solutions
        /\ Scored => DistanceOf(IdentityMapping) = 0
        /\ (pc = "reported") => min_distance = 0

-----------------------------------------------------------------------------
(* The refiner, rule by rule.  A call on the stack below the top has made  *)
(* the call above it: the candidate it is trying is the one at its k, and  *)
(* the map of the call above is the refined map.                           *)

\* The image the i-th call on the stack has given its node.
Assigned(i) == stack[i].C[stack[i].v][stack[i].k]

\* The map the i-th call refined and passed down.
Refined(i) == stack[i + 1].C

\* C21: when a call of B6 assigns DELETE to its node v, the refined map
\* gives every descendant of v (children, grandchildren, ...) the list that
\* consists of DELETE alone.
DeletionCollapse ==
    impl = "B6" =>
        \A i \in 1..(Len(stack) - 1) :
            Assigned(i) = T2.dummy =>
                \A x \in Descendants(T1, stack[i].v) : Refined(i)[x] = <<T2.dummy>>

\* C22: when a call assigns to its node v an image w that is not DELETE,
\* the refined list of every child of v holds only DELETE and nodes of T2
\* whose parent is w; and in every solution a node of T1 that has a parent
\* and an image w' other than DELETE has its parent mapped to the parent of
\* w' in T2.
ParentPreservation ==
    /\ \A i \in 1..(Len(stack) - 1) :
          Assigned(i) # T2.dummy =>
              \A c \in Range(T1.children[stack[i].v]) : \A y \in Range(Refined(i)[c]) :
                  y = T2.dummy \/ T2.parent[y] = Assigned(i)
    /\ \A m \in Solutions : \A v \in Nodes(T1) :
          (T1.parent[v] # 0 /\ ToOrdinary(m, v)) =>
              Mapped(m, T1.parent[v]) /\ m[T1.parent[v]] = T2.parent[m[v]]

\* s is a sibling of v that comes after v in the preorder of T1.
LaterSibling(v, s) ==
    Siblings(T1, v, s) /\ TruePreorder(T1, v) < TruePreorder(T1, s)

\* C23: when a call of B6 assigns to a node v that has a parent an image w
\* other than DELETE, an ordinary candidate y (other than w) of a later
\* sibling s of v is missing from the refined list of s exactly when the
\* parent of w in T2 is not the image of v's parent and y precedes w in the
\* preorder of T2; if the parent of w is that image, s loses none.
SiblingRuleTrigger ==
    impl = "B6" =>
        \A i \in 1..(Len(stack) - 1) :
            LET v == stack[i].v
                w == Assigned(i)
            IN  (T1.parent[v] # 0 /\ w # T2.dummy) =>
                    \A s \in {x \in Nodes(T1) : LaterSibling(v, x)} :
                        \A y \in Range(stack[i].C[s]) \ {T2.dummy, w} :
                            (y \notin Range(Refined(i)[s]))
                                <=> (/\ T2.parent[w] # M[T1.parent[v]]
                                     /\ TruePreorder(T2, y) < TruePreorder(T2, w))

-----------------------------------------------------------------------------
(* The driver.                                                             *)

\* The nodes of T1 that have an entry in the mapping.
MappingDomain == {x \in Nodes(T1) : M[x] # 0}

\* The nodes of T1 before x in preorder.
Before(x) == {y \in Nodes(T1) : TruePreorder(T1, y) < TruePreorder(T1, x)}

\* C24: whenever the call at the top of the stack is about to try a
\* candidate for its node v (on entry and after the branch of the previous
\* candidate has returned), the mapping has entries for exactly the nodes
\* of T1 before v in preorder: the entry of v and of every later node has
\* been removed; and when the search is over the mapping is empty.
MappingLifecycle ==
    /\ (pc = "search") => MappingDomain = Before(Top.v)
    /\ (pc = "done") => MappingDomain = {}

-----------------------------------------------------------------------------
(* The tree model.                                                         *)

\* C25: once B6 has read an input whose two edge lists each describe a
\* rooted tree, with the edges in any order, the root of each tree is the
\* node whose label has no incoming edge in the list.
RootSelection ==
    (impl = "B6" /\ pc # "read" /\ IsRootedTree(input.T1) /\ IsRootedTree(input.T2)) =>
        /\ T1.label[T1.root] \in Heads(input.T1)
        /\ T2.label[T2.root] \in Heads(input.T2)

\* The indices of T are those of the walk: the root has 0, every node the
\* place it has in the root-first walk, the indices are 0..n-1 without
\* repetition and grow from parent to child.
IndexedInPreorder(T) ==
    /\ T.order[TrueRoot(T)] = 0
    /\ \A x \in Ordinary(T) : T.order[x] = TruePreorder(T, x)
    /\ {T.order[x] : x \in Ordinary(T)} = 0..(Cardinality(Ordinary(T)) - 1)
    /\ \A x, y \in Ordinary(T) : T.order[x] = T.order[y] => x = y
    /\ \A x \in Ordinary(T) : T.parent[x] # 0 => T.order[x] > T.order[T.parent[x]]

\* C26: once the indices have been assigned (B6: preorder_tree_traversal in
\* a run; P2: assignPreorderAndDepth in readTree), each of the two trees is
\* indexed in preorder.
PreorderIndexing ==
    (impl = "P2" \/ runs >= 1) => IndexedInPreorder(T1) /\ IndexedInPreorder(T2)

-----------------------------------------------------------------------------
(* The solution collection as a whole.                                     *)

\* The mapping that sends every node of T1 to DELETE.
AllDeleted == [x \in Nodes(T1) |-> T2.dummy]

\* C27: when a run is over, the solution collection is not empty and holds
\* the mapping that deletes every node of T1; main's report of B6 is never
\* that of no valid mapping.
NonEmptyResult ==
    Finished =>
        /\ L # <<>>
        /\ AllDeleted \in Solutions
        /\ (pc = "reported") => min_distance # INT_MAX

\* The number of ordinary nodes of T2 less the number of nodes of T1.
SizeDifference == Cardinality(Ordinary(T2)) - Cardinality(Nodes(T1))

\* C28: the edit distance main prints for a solution is |T2| - |T1| plus
\* twice the number of nodes of T1 the solution maps to DELETE (|T2|
\* counting ordinary nodes only); so it is at least |T2| - |T1| and differs
\* from it by an even number.
DistanceIdentity ==
    Scored =>
        \A i \in 1..Len(L) :
            /\ edit_distance[i] = SizeDifference + 2 * Cardinality(Deleted(L[i]))
            /\ edit_distance[i] >= SizeDifference
            /\ (edit_distance[i] - SizeDifference) % 2 = 0

\* C29: the solution collection of a run never holds the same mapping
\* twice: two entries differ in the image of some node of T1.
NoDuplicateSolutions ==
    \A i, j \in 1..Len(L) :
        i # j => \E v \in Nodes(T1) : L[i][v] # L[j][v]

\* A finished run on a T1 of the largest size has collected four solutions
\* or more, and as many different ones.
NoDuplicateSolutionsWitness ==
    /\ pc = "done"
    /\ Cardinality(Nodes(T1)) = MaxNodes
    /\ Len(L) >= 4
    /\ Cardinality(Solutions) = Len(L)

\* The maps of the reference set of P2: every image other than the dummy
\* has the depth of its source, no two nodes share such an image, and a
\* node with a parent and such an image has its parent mapped to the parent
\* of the image.
ReferenceMap(m) ==
    /\ \A v \in Nodes(T1) :
          m[v] # T2.dummy => TrueDepth(T1, v) = TrueDepth(T2, m[v])
    /\ \A v1, v2 \in Nodes(T1) :
          (v1 # v2 /\ m[v1] # T2.dummy /\ m[v2] # T2.dummy) => m[v1] # m[v2]
    /\ \A v \in Nodes(T1) :
          (T1.parent[v] # 0 /\ m[v] # T2.dummy) => T2.parent[m[v]] = m[T1.parent[v]]

ReferenceSet == {m \in [Nodes(T1) -> Ordinary(T2) \cup {T2.dummy}] : ReferenceMap(m)}

\* C30: when a run of P2 is over, the collected solutions are exactly the
\* maps of the reference set, and in each of them a child of a node mapped
\* to the dummy is mapped to the dummy.
ReferenceEnumeration ==
    (impl = "P2" /\ pc = "done") =>
        /\ Solutions = ReferenceSet
        /\ \A m \in Solutions : \A v \in Nodes(T1) :
              (T1.parent[v] # 0 /\ m[T1.parent[v]] = T2.dummy) => m[v] = T2.dummy

\* A finished run of P2 on trees of the largest size whose solutions are
\* the reference set, among them one that gives two siblings images under
\* the image of their parent, and one that deletes a node with a child.
ReferenceEnumerationWitness ==
    /\ impl = "P2" /\ pc = "done"
    /\ Cardinality(Nodes(T1)) = MaxNodes
    /\ Solutions = ReferenceSet
    /\ \E m \in Solutions : \E v1, v2 \in Nodes(T1) :
          Siblings(T1, v1, v2) /\ ToOrdinary(m, v1) /\ ToOrdinary(m, v2)
    /\ \E m \in Solutions : \E v \in Nodes(T1) :
          T1.parent[v] # 0 /\ m[T1.parent[v]] = T2.dummy /\ m[v] = T2.dummy

=============================================================================
